---- MODULE Spec2Model ----
(***************************************************************************)
(* The SPU RAM allocator of kernel/arch/dreamcast/sound/snd_mem.c: a       *)
(* best-fit allocator with lazy coalescing over a tail queue of blocks.    *)
(*                                                                         *)
(* uint32 and size_t are 32 bits wide on the target.  A 32-bit unsigned    *)
(* value v is held as the record [q, r] with v = 32*q + r, 0 <= r < 32 and *)
(* 0 <= q < 2^27, so that its arithmetic is computed modulo 2^32 exactly   *)
(* as the C code computes it.                                              *)
(***************************************************************************)
EXTENDS Integers, Sequences, FiniteSets, Bags, TLC

VARIABLES
    initted,    \* static int initted
    pool,       \* static TAILQ_HEAD(...) pool: the live blocks, in queue order
    last,       \* the last call made: its name, argument, outcome and return value
    reserve,    \* the argument of the last successful snd_mem_init
    post_init,  \* the pool as the last successful snd_mem_init left it
    returned,   \* caller's history: the addresses snd_mem_malloc returned since that init
    owed,       \* caller's history: the bag of returned addresses not freed yet
    phase,      \* caller's history: "alloc" until its first free, then "free"; else "off"
    snd_mem_mutex,  \* static spinlock_t snd_mem_mutex: TRUE while it is locked
    pc,         \* for each thread, the place in snd_mem.c it has reached
    frame,      \* for each thread, the locals of the call it is in
    stale,      \* the records the queue head still points to after snd_mem_shutdown
                \* has freed them; <<>> when the head points to no freed record
    dbgio,      \* static dbgio_handler_t * dbgio: the index in dbgio_handlers, or NULL
    dbgio_enabled,  \* static int dbgio_enabled
    dbg_call    \* the last debug console call: its name, return value, the handler
                \* it called into and how it ended

hist == <<returned, owed, phase>>

\* what only concurrent callers make visible
conc == <<snd_mem_mutex, pc, frame, stale>>

dbg == <<dbgio, dbgio_enabled, dbg_call>>

vars == <<initted, pool, last, reserve, post_init, returned, owed, phase,
          snd_mem_mutex, pc, frame, stale, dbgio, dbgio_enabled, dbg_call>>

---------------------------------------------------------------------------
(* 32-bit unsigned arithmetic *)

\* 2^32 / 32: the number of 32-byte units a uint32 can count
Units == 134217728

U32(q, r) == [q |-> q, r |-> r]

Zero == U32(0, 0)

\* (uint32)-1, the bits of the int return value -1
MinusOne == U32(Units - 1, 31)

\* a + b modulo 2^32
Add32(a, b) ==
    LET s == a.r + b.r
    IN  U32((a.q + b.q + (s \div 32)) % Units, s % 32)

\* a - b modulo 2^32
Sub32(a, b) ==
    IF a.r >= b.r
    THEN U32((a.q + Units - b.q) % Units, a.r - b.r)
    ELSE U32((a.q + Units - b.q - 1) % Units, a.r + 32 - b.r)

Lt32(a, b) == a.q < b.q \/ (a.q = b.q /\ a.r < b.r)

Ge32(a, b) == ~Lt32(a, b)

\* a rounding that leaves its argument as it is
RoundNone(x) == x

\* (x + 0x1f) & ~0x1f
RoundUp32(x) ==
    LET y == Add32(x, U32(0, 31))
    IN  U32(y.q, 0)

\* 2 * 1024 * 1024, the size of SPU RAM
Capacity == U32(65536, 0)

\* size_t best_size = 4 * 1024 * 1024
BestSizeInit == U32(131072, 0)

---------------------------------------------------------------------------
(* Blocks and the queue *)

\* snd_block_t
Blk(a, s, u) == [addr |-> a, size |-> s, inuse |-> u]

\* o->size += e->size; TAILQ_REMOVE(&pool, e, qent); free(e), with o = p[i], e = p[i+1]
Absorb(p, i) ==
    SubSeq(p, 1, i - 1)
        \o <<[p[i] EXCEPT !.size = Add32(p[i].size, p[i + 1].size)]>>
        \o SubSeq(p, i + 2, Len(p))

\* TAILQ_INSERT_AFTER(&pool, p[i], e, qent)
InsertAfter(p, i, e) ==
    SubSeq(p, 1, i) \o <<e>> \o SubSeq(p, i + 1, Len(p))

\* the best-fit loop of snd_mem_malloc: the index of best (0 for NULL) after
\* the blocks i..Len(p) have been visited
RECURSIVE BestScan(_, _, _, _, _)
BestScan(p, size, i, best, best_size) ==
    IF i > Len(p) THEN best
    ELSE IF Ge32(p[i].size, size) /\ Lt32(p[i].size, best_size) /\ ~p[i].inuse
         THEN BestScan(p, size, i + 1, i, p[i].size)
         ELSE BestScan(p, size, i + 1, best, best_size)

\* a lookup that takes any address inside a block for the block
RECURSIVE FindBlockContaining(_, _, _)
FindBlockContaining(p, addr, i) ==
    IF i > Len(p) THEN 0
    ELSE IF Ge32(addr, p[i].addr) /\ Lt32(Sub32(addr, p[i].addr), p[i].size) THEN i
         ELSE FindBlockContaining(p, addr, i + 1)

\* the lookup loop of snd_mem_free: the index of the first block at addr, 0 for NULL
RECURSIVE FindBlock(_, _, _)
FindBlock(p, addr, i) ==
    IF i > Len(p) THEN 0
    ELSE IF p[i].addr = addr THEN i
         ELSE FindBlock(p, addr, i + 1)

\* the loop of snd_mem_available: largest after the blocks i..Len(p) have been visited
RECURSIVE LargestScan(_, _, _)
LargestScan(p, i, largest) ==
    IF i > Len(p) THEN largest
    ELSE IF Lt32(largest, p[i].size)
         THEN LargestScan(p, i + 1, p[i].size)
         ELSE LargestScan(p, i + 1, largest)

---------------------------------------------------------------------------
(* The calls, as functions of the pool and of what the environment answers: *)
(* "busy" = spinlock_lock_irqsafe fails, "nomem" = malloc returns NULL,     *)
(* "ok" = neither.                                                          *)

\* the split of snd_mem_malloc: best shrinks to size and a free remainder follows it
SplitBlock(p, best, size) ==
    LET e == Blk(Add32(p[best].addr, size), Sub32(p[best].size, size), FALSE)
        q == InsertAfter(p, best, e)
    IN  [q EXCEPT ![best].size = size, ![best].inuse = TRUE]

\* a snd_mem_malloc that goes on when spinlock_lock_irqsafe has failed
MallocStepIgnoresBusy(p, size0, env) ==
    IF size0 = Zero
    THEN [pool |-> p, ret |-> Zero, out |-> "ZeroSize", blk |-> 0]
    ELSE
        LET size == RoundUp32(size0)
            best == BestScan(p, size, 1, 0, BestSizeInit)
        IN  IF best = 0
            THEN [pool |-> p, ret |-> Zero, out |-> "OutOfSpace", blk |-> 0]
            ELSE IF p[best].size = size
            THEN [pool |-> [p EXCEPT ![best].inuse = TRUE],
                  ret |-> p[best].addr, out |-> "PerfectFit", blk |-> best]
            ELSE IF env = "nomem"
            THEN [pool |-> p, ret |-> Zero, out |-> "OutOfControlMemory", blk |-> 0]
            ELSE [pool |-> SplitBlock(p, best, size),
                  ret |-> p[best].addr, out |-> "Split", blk |-> best]

\* a snd_mem_malloc that marks best in use before it creates the remainder
\* record and does not undo that when malloc returns NULL
MallocStepEager(p, size0, env) ==
    IF size0 = Zero
    THEN [pool |-> p, ret |-> Zero, out |-> "ZeroSize", blk |-> 0]
    ELSE IF env = "busy"
    THEN [pool |-> p, ret |-> Zero, out |-> "ResourceBusy", blk |-> 0]
    ELSE
        LET size == RoundUp32(size0)
            best == BestScan(p, size, 1, 0, BestSizeInit)
        IN  IF best = 0
            THEN [pool |-> p, ret |-> Zero, out |-> "OutOfSpace", blk |-> 0]
            ELSE IF p[best].size = size
            THEN [pool |-> [p EXCEPT ![best].inuse = TRUE],
                  ret |-> p[best].addr, out |-> "PerfectFit", blk |-> best]
            ELSE IF env = "nomem"
            THEN [pool |-> [p EXCEPT ![best].inuse = TRUE],
                  ret |-> Zero, out |-> "OutOfControlMemory", blk |-> 0]
            ELSE [pool |-> SplitBlock(p, best, size),
                  ret |-> p[best].addr, out |-> "Split", blk |-> best]

\* snd_mem_malloc on an initialized pool
MallocStep(p, size0, env) ==
    IF size0 = Zero
    THEN [pool |-> p, ret |-> Zero, out |-> "ZeroSize", blk |-> 0]
    ELSE IF env = "busy"
    THEN [pool |-> p, ret |-> Zero, out |-> "ResourceBusy", blk |-> 0]
    ELSE
        LET size == RoundUp32(size0)
            best == BestScan(p, size, 1, 0, BestSizeInit)
        IN  IF best = 0
            THEN [pool |-> p, ret |-> Zero, out |-> "OutOfSpace", blk |-> 0]
            ELSE IF p[best].size = size
            THEN [pool |-> [p EXCEPT ![best].inuse = TRUE],
                  ret |-> p[best].addr, out |-> "PerfectFit", blk |-> best]
            ELSE IF env = "nomem"
            THEN [pool |-> p, ret |-> Zero, out |-> "OutOfControlMemory", blk |-> 0]
            ELSE [pool |-> SplitBlock(p, best, size),
                  ret |-> p[best].addr, out |-> "Split", blk |-> best]

\* the backward coalescing of snd_mem_free for the block at index i:
\* the pool and the index of e afterwards
CoalescePrev(p, i) ==
    IF i > 1 /\ ~p[i - 1].inuse
    THEN [pool |-> Absorb(p, i - 1), e |-> i - 1]
    ELSE [pool |-> p, e |-> i]

\* a forward coalescing whose test of o->inuse is inverted
CoalesceNextInverted(p, i) ==
    IF i < Len(p) /\ p[i + 1].inuse
    THEN Absorb(p, i)
    ELSE p

\* the forward coalescing of snd_mem_free for the block at index i
CoalesceNext(p, i) ==
    IF i < Len(p) /\ ~p[i + 1].inuse
    THEN Absorb(p, i)
    ELSE p

\* snd_mem_free on an initialized pool
FreeStep(p, addr, env) ==
    IF addr = Zero THEN [pool |-> p, out |-> "ZeroOffset", blk |-> 0]
    ELSE IF env = "busy" THEN [pool |-> p, out |-> "ResourceBusy", blk |-> 0]
    ELSE
        LET i == FindBlock(p, addr, 1)
        IN  IF i = 0 THEN [pool |-> p, out |-> "InvalidFree", blk |-> 0]
            ELSE
                LET p1 == [p EXCEPT ![i].inuse = FALSE]
                    b  == CoalescePrev(p1, i)
                    p2 == CoalesceNext(b.pool, b.e)
                IN  [pool |-> p2, blk |-> i,
                     out |-> IF Len(p2) = Len(p) THEN "Freed"
                             ELSE IF Len(p2) = Len(p) - 2 THEN "CoalescedBoth"
                             ELSE IF b.e = i THEN "CoalescedNext"
                             ELSE "CoalescedPrev"]

\* snd_mem_available
AvailableStep(p, init, env) ==
    IF ~init THEN [ret |-> Zero, out |-> "Uninitialized"]
    ELSE IF env = "busy" THEN [ret |-> Zero, out |-> "ResourceBusy"]
    ELSE [ret |-> LargestScan(p, 1, Zero), out |-> "Ok"]

\* the pool snd_mem_init builds for a reserve
InitialPool(reserve0) ==
    LET base == RoundUp32(reserve0)
    IN  <<Blk(base, Sub32(Capacity, base), FALSE)>>

---------------------------------------------------------------------------
(* Bounds and inputs *)

\* the most blocks a pool holds
MaxBlocks == 5

\* the most blocks a pool holds when the caller's history is kept too
HistBlocks == 3

\* what the environment answers to a call
Env == {"ok", "busy", "nomem"}

LockEnv == {"ok", "busy"}

\* reserve arguments: 0, 1, 2 MiB, 2 MiB + 1
Reserves == {U32(0, 0), U32(0, 1), U32(65536, 0), U32(65536, 1)}

\* size arguments: 0, 1, 33, 2 MiB - 32, 2^32 - 1
Sizes == {U32(0, 0), U32(0, 1), U32(1, 1), U32(65535, 0), U32(Units - 1, 31)}

\* addr arguments: 0, every block's address, and an address inside the first block
Offsets(p) ==
    {Zero} \cup {p[i].addr : i \in 1..Len(p)}
           \cup {Add32(p[i].addr, U32(0, 16)) : i \in 1..(IF Len(p) > 0 THEN 1 ELSE 0)}

\* the threads that call into snd_mem.c
Threads == {"t1", "t2"}

\* the locals of a thread that is in no call: the call and its argument, the
\* index of the record e or best points to, the address read from best, what
\* became of that record ("linked", "leaked" by a TAILQ_INIT, "freed"), and
\* whether the thread has locked snd_mem_mutex
IdleFrame ==
    [op |-> "none", arg |-> Zero, e |-> 0, addr |-> Zero, rec |-> "none", holds |-> FALSE]

NoCall == [op |-> "none", arg |-> Zero, out |-> "none", ret |-> Zero, blk |-> 0]

\* the record of a call; a call that does not get the guard returns before it
\* uses its argument, which is then recorded as 0
Call(op, arg, out, ret, blk) ==
    [op |-> op, arg |-> IF out = "ResourceBusy" THEN Zero ELSE arg,
     out |-> out, ret |-> ret, blk |-> blk]

---------------------------------------------------------------------------
(* The state machine *)

\* no handler selected
NULL == 0

\* no debug console call has been made
NoDbgCall == [op |-> "none", ret |-> 0, via |-> NULL, out |-> "none"]

Init ==
    /\ initted = FALSE
    /\ pool = <<>>
    /\ last = NoCall
    /\ reserve = Zero
    /\ post_init = <<>>
    /\ returned = {}
    /\ owed = EmptyBag
    /\ phase = "off"
    /\ snd_mem_mutex = FALSE
    /\ pc = [t \in Threads |-> "idle"]
    /\ frame = [t \in Threads |-> IdleFrame]
    /\ stale = <<>>
    /\ dbgio = NULL
    /\ dbgio_enabled = FALSE
    /\ dbg_call = NoDbgCall

\* a snd_mem_shutdown that frees the records and leaves initted set
snd_mem_shutdown_stays_initted(env) ==
    /\ IF initted /\ env # "busy"
       THEN /\ pool' = <<>>
            /\ reserve' = Zero
            /\ post_init' = <<>>
            /\ UNCHANGED initted
       ELSE UNCHANGED <<initted, pool, reserve, post_init>>
    /\ last' = Call("shutdown", Zero,
                    IF ~initted THEN "Uninitialized"
                    ELSE IF env = "busy" THEN "ResourceBusy" ELSE "Ok",
                    Zero, 0)

\* snd_mem_shutdown
snd_mem_shutdown(env) ==
    /\ IF initted /\ env # "busy"
       THEN /\ initted' = FALSE
            /\ pool' = <<>>
            /\ reserve' = Zero
            /\ post_init' = <<>>
       ELSE UNCHANGED <<initted, pool, reserve, post_init>>
    /\ last' = Call("shutdown", Zero,
                    IF ~initted THEN "Uninitialized"
                    ELSE IF env = "busy" THEN "ResourceBusy" ELSE "Ok",
                    Zero, 0)

\* snd_mem_init, with the snd_mem_shutdown it starts with when initted
snd_mem_init(res, env) ==
    IF env = "busy"
    THEN /\ UNCHANGED <<initted, pool, reserve, post_init>>
         /\ last' = Call("init", res, "ResourceBusy", MinusOne, 0)
    ELSE IF env = "nomem"
    THEN /\ initted' = FALSE
         /\ pool' = <<>>
         /\ reserve' = Zero
         /\ post_init' = <<>>
         /\ last' = Call("init", res, "OutOfControlMemory", MinusOne, 0)
    ELSE /\ initted' = TRUE
         /\ pool' = InitialPool(res)
         /\ reserve' = res
         /\ post_init' = InitialPool(res)
         /\ last' = Call("init", res, "Ok", Zero, 0)

\* snd_mem_malloc; cap bounds the pool
snd_mem_malloc(size, env, cap) ==
    /\ initted
    /\ LET m == MallocStep(pool, size, env)
       IN  /\ Len(m.pool) <= cap
           /\ pool' = m.pool
           /\ last' = Call("malloc", size, m.out, m.ret, m.blk)
    /\ UNCHANGED <<initted, reserve, post_init>>

\* snd_mem_free
snd_mem_free(addr, env) ==
    /\ initted
    /\ LET f == FreeStep(pool, addr, env)
       IN  /\ pool' = f.pool
           /\ last' = Call("free", addr, f.out, Zero, f.blk)
    /\ UNCHANGED <<initted, reserve, post_init>>

\* snd_mem_available
snd_mem_available(env) ==
    /\ LET a == AvailableStep(pool, initted, env)
       IN  last' = Call("available", Zero, a.out, a.ret, 0)
    /\ UNCHANGED <<initted, pool, reserve, post_init>>

Next ==
    \/ \E r \in Reserves, env \in Env : snd_mem_init(r, env) /\ UNCHANGED <<hist, conc, dbg>>
    \/ \E env \in LockEnv : snd_mem_shutdown(env) /\ UNCHANGED <<hist, conc, dbg>>
    \/ \E s \in Sizes, env \in Env : snd_mem_malloc(s, env, MaxBlocks) /\ UNCHANGED <<hist, conc, dbg>>
    \/ \E a \in Offsets(pool), env \in LockEnv : snd_mem_free(a, env) /\ UNCHANGED <<hist, conc, dbg>>
    \/ \E env \in LockEnv : snd_mem_available(env) /\ UNCHANGED <<hist, conc, dbg>>

Spec == Init /\ [][Next]_vars

---------------------------------------------------------------------------
(* The same calls with the caller's history kept *)

\* the caller forgets everything when the pool is rebuilt or torn down
NoteReset ==
    IF initted' = initted /\ pool' = pool /\ last'.out # "Ok"
    THEN UNCHANGED hist
    ELSE /\ returned' = {}
         /\ owed' = EmptyBag
         /\ phase' = IF initted' THEN "alloc" ELSE "off"

\* the caller records what snd_mem_malloc returned
NoteMalloc ==
    LET ok == last'.out \in {"PerfectFit", "Split"}
    IN  /\ returned' = IF ok THEN returned \cup {last'.ret} ELSE returned
        /\ owed' = IF ok THEN owed (+) SetToBag({last'.ret}) ELSE owed
        /\ phase' = IF phase = "alloc" THEN "alloc" ELSE "off"

\* the caller records what it freed; a call that found the guard busy is retried later
NoteFree ==
    LET done == last'.out # "ResourceBusy"
        mine == BagIn(last'.arg, owed)
    IN  /\ owed' = IF done /\ mine THEN owed (-) SetToBag({last'.arg}) ELSE owed
        /\ phase' = IF ~done THEN phase
                    ELSE IF phase \in {"alloc", "free"} /\ mine THEN "free" ELSE "off"
        /\ UNCHANGED returned

NextHist ==
    \/ \E r \in Reserves, env \in Env : snd_mem_init(r, env) /\ NoteReset /\ UNCHANGED <<conc, dbg>>
    \/ \E env \in LockEnv : snd_mem_shutdown(env) /\ NoteReset /\ UNCHANGED <<conc, dbg>>
    \/ \E s \in Sizes, env \in Env : snd_mem_malloc(s, env, HistBlocks) /\ NoteMalloc /\ UNCHANGED <<conc, dbg>>
    \/ \E a \in Offsets(pool) \cup BagToSet(owed), env \in LockEnv :
            snd_mem_free(a, env) /\ NoteFree /\ UNCHANGED <<conc, dbg>>
    \/ \E env \in LockEnv : snd_mem_available(env) /\ UNCHANGED <<hist, conc, dbg>>

SpecHist == Init /\ [][NextHist]_vars

---------------------------------------------------------------------------
(* Concurrent callers on the single CPU: two threads, which the scheduler  *)
(* may switch between any two steps, and an interrupt handler, which runs  *)
(* a whole call between two steps of the threads.                          *)

\* the most blocks a pool holds with concurrent callers
ConcBlocks == 3

\* reserve arguments of concurrent callers: 1
ConcReserves == {U32(0, 1)}

\* size arguments of concurrent callers: 1
ConcSizes == {U32(0, 1)}

AddrsOf(p) == {p[i].addr : i \in 1..Len(p)}

\* TAILQ_REMOVE(&pool, p[i], qent)
Remove(p, i) == SubSeq(p, 1, i - 1) \o SubSeq(p, i + 1, Len(p))

\* the queue the head points to: the freed records while the head dangles
Ledger == IF stale # <<>> THEN stale ELSE pool

\* a write into the records the head points to
WriteLedger(x) ==
    IF stale # <<>>
    THEN stale' = x /\ pool' = pool
    ELSE pool' = x /\ stale' = stale

\* what a traversal from the head can read: the live queue, or, through a
\* dangling head, either the freed records as they were left or memory that
\* has been reused since (here: a queue that looks empty)
Views == IF stale # <<>> THEN {stale, <<>>} ELSE {pool}

\* free(e) for the records at the addresses gone: a thread that is about to
\* read best->addr from one of them now holds a pointer to a freed record
MarkFreed(fr, gone) ==
    [t \in Threads |->
        IF fr[t].rec = "linked" /\ fr[t].addr \in gone
        THEN [fr[t] EXCEPT !.rec = "freed"]
        ELSE fr[t]]

\* TAILQ_INIT(&pool) over a live queue: its records stay allocated, unlinked
Unlink(fr) ==
    [t \in Threads |->
        IF fr[t].rec = "linked" THEN [fr[t] EXCEPT !.rec = "leaked"] ELSE fr[t]]

\* malloc(sizeof(snd_block_t)) at line 182 may fail at any time, and does fail
\* once main memory holds ConcBlocks records of the queue
MallocFails(p) == IF Len(p) < ConcBlocks THEN BOOLEAN ELSE {TRUE}

\* the places where a thread calls spinlock_lock_irqsafe
LockLabels == {"sd_lock", "i_lock", "m_lock", "f_lock", "a_lock"}

\* where the thread is once it has the lock
Locked(l) ==
    CASE l = "sd_lock" -> "sd_free"
      [] l = "i_lock" -> "i_tailq"
      [] l = "m_lock" -> "m_scan"
      [] l = "f_lock" -> "f_find"
      [] l = "a_lock" -> "a_scan"

\* a thread runs only while no interrupt handler is running
Running(t, l) == last = NoCall /\ pc[t] = l

\* the thread returns to its caller
Return(t, fr) ==
    /\ pc' = [pc EXCEPT ![t] = "idle"]
    /\ frame' = [fr EXCEPT ![t] = IdleFrame]

\* the thread goes on to l with the locals f
Goto(t, l, fr, f) ==
    /\ pc' = [pc EXCEPT ![t] = l]
    /\ frame' = [fr EXCEPT ![t] = f]

\* spinlock_lock_irqsafe in a thread: it spins until the lock is free
spinlock_lock(t) ==
    /\ last = NoCall
    /\ pc[t] \in LockLabels
    /\ ~snd_mem_mutex
    /\ snd_mem_mutex' = TRUE
    /\ Goto(t, Locked(pc[t]), frame, [frame[t] EXCEPT !.holds = TRUE])
    /\ UNCHANGED <<initted, pool, last, reserve, post_init, hist, dbg, stale>>

\* spinlock_lock_irqsafe in the interrupt handler: it fails when the lock is
\* held and succeeds otherwise (malloc may then return NULL or not)
IrqEnv == IF snd_mem_mutex THEN {"busy"} ELSE {"ok", "nomem"}

\* snd_mem_init, line 73: if(initted)
call_init(t, res) ==
    /\ Running(t, "idle")
    /\ Goto(t, IF initted THEN "sd_check" ELSE "i_lock", frame,
            [IdleFrame EXCEPT !.op = "init", !.arg = res])
    /\ UNCHANGED <<initted, pool, last, reserve, post_init, hist, dbg, snd_mem_mutex, stale>>

\* snd_mem_shutdown called by snd_mem_init, line 114: if(!initted) return
sd_check(t) ==
    /\ Running(t, "sd_check")
    /\ Goto(t, IF initted THEN "sd_lock" ELSE "i_lock", frame, frame[t])
    /\ UNCHANGED <<initted, pool, last, reserve, post_init, hist, dbg, snd_mem_mutex, stale>>

\* snd_mem_shutdown, line 114, on a pool it finds initialized
call_shutdown(t) ==
    /\ Running(t, "idle")
    /\ initted
    /\ Goto(t, "sd_lock", frame, [IdleFrame EXCEPT !.op = "shutdown"])
    /\ UNCHANGED <<initted, pool, last, reserve, post_init, hist, dbg, snd_mem_mutex, stale>>

\* snd_mem_shutdown, lines 119-131: every record is freed, the head is left
\* pointing to them (freeing them a second time leaves them freed)
sd_free(t) ==
    /\ Running(t, "sd_free")
    /\ stale' = Ledger
    /\ pool' = <<>>
    /\ Goto(t, "sd_done", MarkFreed(frame, AddrsOf(pool)), frame[t])
    /\ UNCHANGED <<initted, last, reserve, post_init, hist, dbg, snd_mem_mutex>>

\* snd_mem_shutdown, lines 133-134, and the return into snd_mem_init
sd_done(t) ==
    /\ Running(t, "sd_done")
    /\ initted' = FALSE
    /\ reserve' = Zero
    /\ post_init' = <<>>
    /\ snd_mem_mutex' = FALSE
    /\ IF frame[t].op = "init"
       THEN Goto(t, "i_lock", frame, [frame[t] EXCEPT !.holds = FALSE])
       ELSE Return(t, frame)
    /\ UNCHANGED <<pool, last, hist, dbg, stale>>

\* snd_mem_init, lines 82-93: TAILQ_INIT and the malloc of the first record
i_tailq(t) ==
    /\ Running(t, "i_tailq")
    /\ pool' = <<>>
    /\ stale' = <<>>
    /\ \E nomem \in BOOLEAN :
          IF nomem
          THEN snd_mem_mutex' = FALSE /\ Return(t, Unlink(frame))
          ELSE snd_mem_mutex' = snd_mem_mutex
                  /\ Goto(t, "i_insert", Unlink(frame), frame[t])
    /\ UNCHANGED <<initted, last, reserve, post_init, hist, dbg>>

\* snd_mem_init, lines 95-105
i_insert(t) ==
    /\ Running(t, "i_insert")
    /\ pool' = InitialPool(frame[t].arg)
    /\ initted' = TRUE
    /\ reserve' = frame[t].arg
    /\ post_init' = InitialPool(frame[t].arg)
    /\ snd_mem_mutex' = FALSE
    /\ Return(t, frame)
    /\ UNCHANGED <<last, hist, dbg, stale>>

\* snd_mem_malloc, lines 142-145, with initted set and a size that is not 0
call_malloc(t, size) ==
    /\ Running(t, "idle")
    /\ initted
    /\ size # Zero
    /\ Goto(t, "m_lock", frame, [IdleFrame EXCEPT !.op = "malloc", !.arg = size])
    /\ UNCHANGED <<initted, pool, last, reserve, post_init, hist, dbg, snd_mem_mutex, stale>>

\* snd_mem_malloc, lines 153-179: the scan, and the perfect fit
m_scan(t) ==
    /\ Running(t, "m_scan")
    /\ \E view \in Views :
          LET size == RoundUp32(frame[t].arg)
              best == BestScan(view, size, 1, 0, BestSizeInit)
          IN  IF best = 0
              THEN /\ snd_mem_mutex' = FALSE
                   /\ Return(t, frame)
                   /\ UNCHANGED <<pool, stale>>
              ELSE IF view[best].size = size
              THEN /\ WriteLedger([view EXCEPT ![best].inuse = TRUE])
                   /\ snd_mem_mutex' = FALSE
                   /\ Goto(t, "m_ret", frame,
                           [frame[t] EXCEPT !.e = best, !.addr = view[best].addr,
                                            !.holds = FALSE,
                                            !.rec = IF stale # <<>> THEN "freed"
                                                    ELSE "linked"])
              ELSE /\ Goto(t, "m_split", frame, [frame[t] EXCEPT !.e = best])
                   /\ UNCHANGED <<pool, stale, snd_mem_mutex>>
    /\ UNCHANGED <<initted, last, reserve, post_init, hist, dbg>>

\* snd_mem_malloc, lines 182-194: the remainder record is created and linked in
m_split(t) ==
    /\ Running(t, "m_split")
    /\ \E nomem \in MallocFails(Ledger) :
          IF nomem
          THEN /\ snd_mem_mutex' = FALSE
               /\ Return(t, frame)
               /\ UNCHANGED <<pool, stale>>
          ELSE LET L == Ledger
                   best == frame[t].e
                   size == RoundUp32(frame[t].arg)
                   e == Blk(Add32(L[best].addr, size), Sub32(L[best].size, size), FALSE)
               IN  /\ WriteLedger(InsertAfter(L, best, e))
                   /\ Goto(t, "m_shrink", frame, frame[t])
                   /\ UNCHANGED snd_mem_mutex
    /\ UNCHANGED <<initted, last, reserve, post_init, hist, dbg>>

\* snd_mem_malloc, lines 201-204
m_shrink(t) ==
    /\ Running(t, "m_shrink")
    /\ LET L == Ledger
           best == frame[t].e
       IN  /\ WriteLedger([L EXCEPT ![best].size = RoundUp32(frame[t].arg),
                                    ![best].inuse = TRUE])
           /\ Goto(t, "m_ret", frame,
                   [frame[t] EXCEPT !.addr = L[best].addr, !.holds = FALSE,
                                    !.rec = IF stale # <<>> THEN "freed" ELSE "linked"])
    /\ snd_mem_mutex' = FALSE
    /\ UNCHANGED <<initted, last, reserve, post_init, hist, dbg>>

\* snd_mem_malloc, lines 178 and 205: return best->addr, read after the unlock;
\* read from a freed record it is any value (no return value of a thread is kept)
m_ret(t) ==
    /\ Running(t, "m_ret")
    /\ Return(t, frame)
    /\ UNCHANGED <<initted, pool, last, reserve, post_init, hist, dbg, snd_mem_mutex, stale>>

\* snd_mem_free, lines 213-216, with initted set and an address that is not 0
call_free(t, addr) ==
    /\ Running(t, "idle")
    /\ initted
    /\ addr # Zero
    /\ Goto(t, "f_lock", frame, [IdleFrame EXCEPT !.op = "free", !.arg = addr])
    /\ UNCHANGED <<initted, pool, last, reserve, post_init, hist, dbg, snd_mem_mutex, stale>>

\* snd_mem_free with the return at line 230 taken before the unlock of line 229
f_find_keeps_lock(t) ==
    /\ Running(t, "f_find")
    /\ \E view \in Views :
          LET i == FindBlock(view, frame[t].arg, 1)
          IN  IF i = 0
              THEN /\ Return(t, frame)
                   /\ UNCHANGED <<pool, stale, snd_mem_mutex>>
              ELSE /\ WriteLedger([view EXCEPT ![i].inuse = FALSE])
                   /\ Goto(t, "f_prev", frame, [frame[t] EXCEPT !.e = i])
                   /\ UNCHANGED snd_mem_mutex
    /\ UNCHANGED <<initted, last, reserve, post_init, hist, dbg>>

\* snd_mem_free, lines 222-234: the lookup, and e->inuse = 0
f_find(t) ==
    /\ Running(t, "f_find")
    /\ \E view \in Views :
          LET i == FindBlock(view, frame[t].arg, 1)
          IN  IF i = 0
              THEN /\ snd_mem_mutex' = FALSE
                   /\ Return(t, frame)
                   /\ UNCHANGED <<pool, stale>>
              ELSE /\ WriteLedger([view EXCEPT ![i].inuse = FALSE])
                   /\ Goto(t, "f_prev", frame, [frame[t] EXCEPT !.e = i])
                   /\ UNCHANGED snd_mem_mutex
    /\ UNCHANGED <<initted, last, reserve, post_init, hist, dbg>>

\* snd_mem_free, lines 240-246: o = TAILQ_PREV(e); o->size += e->size
f_prev(t) ==
    /\ Running(t, "f_prev")
    /\ LET L == Ledger
           i == frame[t].e
       IN  IF i > 1 /\ ~L[i - 1].inuse
           THEN /\ WriteLedger([L EXCEPT ![i - 1].size = Add32(L[i - 1].size, L[i].size)])
                /\ Goto(t, "f_prev_drop", frame, frame[t])
           ELSE /\ Goto(t, "f_next", frame, frame[t])
                /\ UNCHANGED <<pool, stale>>
    /\ UNCHANGED <<initted, last, reserve, post_init, hist, dbg, snd_mem_mutex>>

\* snd_mem_free, lines 247-249: TAILQ_REMOVE(e); free(e); e = o
f_prev_drop(t) ==
    /\ Running(t, "f_prev_drop")
    /\ LET L == Ledger
           i == frame[t].e
       IN  /\ WriteLedger(Remove(L, i))
           /\ Goto(t, "f_next",
                   MarkFreed(frame, IF stale # <<>> THEN {} ELSE {L[i].addr}),
                   [frame[t] EXCEPT !.e = i - 1])
    /\ UNCHANGED <<initted, last, reserve, post_init, hist, dbg, snd_mem_mutex>>

\* snd_mem_free, lines 253-259 and 263: o = TAILQ_NEXT(e); e->size += o->size
f_next(t) ==
    /\ Running(t, "f_next")
    /\ LET L == Ledger
           i == frame[t].e
       IN  IF i < Len(L) /\ ~L[i + 1].inuse
           THEN /\ WriteLedger([L EXCEPT ![i].size = Add32(L[i].size, L[i + 1].size)])
                /\ Goto(t, "f_next_drop", frame, frame[t])
                /\ UNCHANGED snd_mem_mutex
           ELSE /\ snd_mem_mutex' = FALSE
                /\ Return(t, frame)
                /\ UNCHANGED <<pool, stale>>
    /\ UNCHANGED <<initted, last, reserve, post_init, hist, dbg>>

\* snd_mem_free, lines 260-263: TAILQ_REMOVE(o); free(o)
f_next_drop(t) ==
    /\ Running(t, "f_next_drop")
    /\ LET L == Ledger
           i == frame[t].e
       IN  /\ WriteLedger(Remove(L, i + 1))
           /\ Return(t, MarkFreed(frame, IF stale # <<>> THEN {} ELSE {L[i + 1].addr}))
    /\ snd_mem_mutex' = FALSE
    /\ UNCHANGED <<initted, last, reserve, post_init, hist, dbg>>

\* snd_mem_available, line 270, on a pool it finds initialized
call_available(t) ==
    /\ Running(t, "idle")
    /\ initted
    /\ Goto(t, "a_lock", frame, [IdleFrame EXCEPT !.op = "available"])
    /\ UNCHANGED <<initted, pool, last, reserve, post_init, hist, dbg, snd_mem_mutex, stale>>

\* snd_mem_available, lines 278-284
a_scan(t) ==
    /\ Running(t, "a_scan")
    /\ snd_mem_mutex' = FALSE
    /\ Return(t, frame)
    /\ UNCHANGED <<initted, pool, last, reserve, post_init, hist, dbg, stale>>

\* the interrupt handler calls snd_mem_init
irq_init(res) ==
    /\ last = NoCall
    /\ \E env \in IrqEnv : snd_mem_init(res, env)
    /\ stale' = IF snd_mem_mutex THEN stale ELSE <<>>
    /\ frame' = IF snd_mem_mutex THEN frame
                ELSE IF initted THEN MarkFreed(frame, AddrsOf(pool))
                ELSE Unlink(frame)
    /\ UNCHANGED <<hist, dbg, snd_mem_mutex, pc>>

\* the interrupt handler calls snd_mem_shutdown
irq_shutdown ==
    /\ last = NoCall
    /\ \E env \in IrqEnv : snd_mem_shutdown(env)
    /\ stale' = IF initted /\ ~snd_mem_mutex THEN pool ELSE stale
    /\ frame' = IF initted /\ ~snd_mem_mutex THEN MarkFreed(frame, AddrsOf(pool))
                ELSE frame
    /\ UNCHANGED <<hist, dbg, snd_mem_mutex, pc>>

\* the interrupt handler calls snd_mem_malloc
irq_malloc(size) ==
    /\ last = NoCall
    /\ \E env \in IrqEnv : snd_mem_malloc(size, env, ConcBlocks)
    /\ UNCHANGED <<hist, dbg, conc>>

\* the interrupt handler calls snd_mem_free
irq_free(addr) ==
    /\ last = NoCall
    /\ \E env \in IrqEnv : snd_mem_free(addr, env)
    /\ frame' = MarkFreed(frame, AddrsOf(pool) \ AddrsOf(pool'))
    /\ UNCHANGED <<hist, dbg, snd_mem_mutex, pc, stale>>

\* the interrupt handler calls snd_mem_available
irq_available ==
    /\ last = NoCall
    /\ \E env \in IrqEnv : snd_mem_available(env)
    /\ UNCHANGED <<hist, dbg, conc>>

\* the interrupt handler returns and the interrupted thread resumes
irq_return ==
    /\ last # NoCall
    /\ last' = NoCall
    /\ UNCHANGED <<initted, pool, reserve, post_init, hist, dbg, conc>>

NextConc ==
    \/ \E t \in Threads, r \in ConcReserves : call_init(t, r)
    \/ \E t \in Threads : sd_check(t)
    \/ \E t \in Threads : call_shutdown(t)
    \/ \E t \in Threads : spinlock_lock(t)
    \/ \E t \in Threads : sd_free(t)
    \/ \E t \in Threads : sd_done(t)
    \/ \E t \in Threads : i_tailq(t)
    \/ \E t \in Threads : i_insert(t)
    \/ \E t \in Threads, s \in ConcSizes : call_malloc(t, s)
    \/ \E t \in Threads : m_scan(t)
    \/ \E t \in Threads : m_split(t)
    \/ \E t \in Threads : m_shrink(t)
    \/ \E t \in Threads : m_ret(t)
    \/ \E t \in Threads, a \in AddrsOf(pool) : call_free(t, a)
    \/ \E t \in Threads : f_find(t)
    \/ \E t \in Threads : f_prev(t)
    \/ \E t \in Threads : f_prev_drop(t)
    \/ \E t \in Threads : f_next(t)
    \/ \E t \in Threads : f_next_drop(t)
    \/ \E t \in Threads : call_available(t)
    \/ \E t \in Threads : a_scan(t)
    \/ \E r \in ConcReserves : irq_init(r)
    \/ irq_shutdown
    \/ \E s \in ConcSizes : irq_malloc(s)
    \/ \E a \in AddrsOf(pool) : irq_free(a)
    \/ irq_available
    \/ irq_return

SpecConc == Init /\ [][NextConc]_vars

\* the next statement of thread t inside a call it has started
Proceed(t) ==
    \/ sd_check(t)
    \/ spinlock_lock(t)
    \/ sd_free(t)
    \/ sd_done(t)
    \/ i_tailq(t)
    \/ i_insert(t)
    \/ m_scan(t)
    \/ m_split(t)
    \/ m_shrink(t)
    \/ m_ret(t)
    \/ f_find(t)
    \/ f_prev(t)
    \/ f_prev_drop(t)
    \/ f_next(t)
    \/ f_next_drop(t)
    \/ a_scan(t)

\* the two threads alone, no interrupt handler
NextLive ==
    \/ \E t \in Threads, r \in ConcReserves : call_init(t, r)
    \/ \E t \in Threads : call_shutdown(t)
    \/ \E t \in Threads, s \in ConcSizes : call_malloc(t, s)
    \/ \E t \in Threads, a \in AddrsOf(pool) : call_free(t, a)
    \/ \E t \in Threads : call_available(t)
    \/ \E t \in Threads : Proceed(t)

\* Every thread that can execute its next statement does so in the end. A
\* thread spinning in spinlock_lock_irqsafe can execute its next statement only
\* while the lock is free: no order among the contenders is assumed.
SpecLive == Init /\ [][NextLive]_vars /\ \A t \in Threads : WF_vars(Proceed(t))

---------------------------------------------------------------------------
(* The debug console of kernel/debug/dbgio.c: a table of handlers, the     *)
(* selected handler and the enable flag.                                   *)

\* dbgio_handler_cnt: 3
NumHandlers == 3

\* dbgio_handlers[i]
Handlers == 1..NumHandlers

\* the name arguments of dbgio_dev_select: handler i has the name i, and 0 is a
\* name that no handler has
Names == 0..NumHandlers

\* what a handler's read, write, flush, ... may return
HandlerRets == {-1, 0, 1}

\* the variables of the allocator
sndmem == <<initted, pool, last, reserve, post_init, hist, conc>>

DbgCall(op, ret, via, out) == [op |-> op, ret |-> ret, via |-> via, out |-> out]

\* the program runs: no assertion has failed, no NULL handler has been called
Alive == dbg_call.out \notin {"AssertFailed", "NullCall"}

\* dbgio_dev_select, lines 27-45; fails: the handlers whose init() fails now
dbgio_dev_select(name, fails) ==
    /\ Alive
    /\ IF name \in Handlers
       THEN IF name \in fails
            THEN /\ dbg_call' = DbgCall("dbgio_dev_select", -1, name, "ENODEV")
                 /\ UNCHANGED dbgio
            ELSE /\ dbgio' = name
                 /\ dbg_call' = DbgCall("dbgio_dev_select", 0, name, "ok")
       ELSE /\ dbg_call' = DbgCall("dbgio_dev_select", -1, NULL, "ENODEV")
            /\ UNCHANGED dbgio
    /\ UNCHANGED <<dbgio_enabled, sndmem>>

\* dbgio_enable, lines 55-57
dbgio_enable ==
    /\ Alive
    /\ dbgio_enabled' = TRUE
    /\ dbg_call' = DbgCall("dbgio_enable", 0, NULL, "ok")
    /\ UNCHANGED <<dbgio, sndmem>>

\* dbgio_disable, lines 58-60
dbgio_disable ==
    /\ Alive
    /\ dbgio_enabled' = FALSE
    /\ dbg_call' = DbgCall("dbgio_disable", 0, NULL, "ok")
    /\ UNCHANGED <<dbgio, sndmem>>

\* the loop of dbgio_init from handler i on, cur being the value of dbgio:
\* the value of dbgio and the return value when the function returns
RECURSIVE InitScan(_, _, _, _)
InitScan(i, cur, detected, fails) ==
    IF i > NumHandlers THEN [dbgio |-> cur, ret |-> -1]
    ELSE IF i \in detected
    THEN IF i \notin fails
         THEN [dbgio |-> i, ret |-> 0]
         ELSE InitScan(i + 1, NULL, detected, fails)
    ELSE InitScan(i + 1, cur, detected, fails)

\* dbgio_init, lines 62-87; detected: the handlers whose detected() is true,
\* fails: the handlers whose init() fails now
dbgio_init(detected, fails) ==
    /\ Alive
    /\ LET r == InitScan(1, dbgio, detected, fails)
       IN  /\ dbgio' = r.dbgio
           /\ dbgio_enabled' = IF r.ret = 0 THEN TRUE ELSE dbgio_enabled
           /\ dbg_call' = DbgCall("dbgio_init", r.ret, r.dbgio,
                                  IF r.ret = 0 THEN "ok" ELSE "ENODEV")
    /\ UNCHANGED sndmem

\* the functions of lines 89-159: if(dbgio_enabled) { assert(dbgio); return
\* dbgio->f(...); } return -1; the assertion aborts the program, and where
\* assertions are compiled out the call goes through the NULL handler
Dispatch(op, ret) ==
    /\ Alive
    /\ IF dbgio_enabled
       THEN IF dbgio = NULL
            THEN \E out \in {"AssertFailed", "NullCall"} :
                    dbg_call' = DbgCall(op, 0, NULL, out)
            ELSE dbg_call' = DbgCall(op, ret, dbgio, "ok")
       ELSE dbg_call' = DbgCall(op, -1, NULL, "ok")
    /\ UNCHANGED <<dbgio, dbgio_enabled, sndmem>>

dbgio_set_irq_usage(ret) == Dispatch("dbgio_set_irq_usage", ret)

dbgio_read(ret) == Dispatch("dbgio_read", ret)

dbgio_write(ret) == Dispatch("dbgio_write", ret)

dbgio_flush(ret) == Dispatch("dbgio_flush", ret)

dbgio_write_buffer(ret) == Dispatch("dbgio_write_buffer", ret)

dbgio_read_buffer(ret) == Dispatch("dbgio_read_buffer", ret)

dbgio_write_buffer_xlat(ret) == Dispatch("dbgio_write_buffer_xlat", ret)

\* dbgio_write_str, lines 152-159: it goes on into dbgio_write_buffer_xlat
dbgio_write_str(ret) == Dispatch("dbgio_write_str", ret)

NextDbgio ==
    \/ \E n \in Names, f \in SUBSET Handlers : dbgio_dev_select(n, f)
    \/ dbgio_enable
    \/ dbgio_disable
    \/ \E d \in SUBSET Handlers, f \in SUBSET Handlers : dbgio_init(d, f)
    \/ \E r \in HandlerRets : dbgio_set_irq_usage(r)
    \/ \E r \in HandlerRets : dbgio_read(r)
    \/ \E r \in HandlerRets : dbgio_write(r)
    \/ \E r \in HandlerRets : dbgio_flush(r)
    \/ \E r \in HandlerRets : dbgio_write_buffer(r)
    \/ \E r \in HandlerRets : dbgio_read_buffer(r)
    \/ \E r \in HandlerRets : dbgio_write_buffer_xlat(r)
    \/ \E r \in HandlerRets : dbgio_write_str(r)

SpecDbgio == Init /\ [][NextDbgio]_vars

---------------------------------------------------------------------------
(* What the claims speak of, computed over the integers (no wrap-around) *)

\* a + s = b as integers
MathAddEq(a, s, b) ==
    LET t == a.r + s.r
    IN  a.q + s.q + (t \div 32) = b.q /\ t % 32 = b.r

\* the least number of 32-byte units that hold x bytes
UnitsUp(x) == x.q + (IF x.r > 0 THEN 1 ELSE 0)

\* the sum of the block sizes, as 32-byte units and remaining bytes
RECURSIVE SumQ(_, _)
SumQ(p, i) == IF i > Len(p) THEN 0 ELSE p[i].size.q + SumQ(p, i + 1)

RECURSIVE SumR(_, _)
SumR(p, i) == IF i > Len(p) THEN 0 ELSE p[i].size.r + SumR(p, i + 1)

\* the sizes of the free blocks
FreeSizes(p) == {p[i].size : i \in {j \in 1..Len(p) : ~p[j].inuse}}

\* the size of the largest free block, 0 when none is free
LargestFree(p) ==
    IF FreeSizes(p) = {} THEN Zero
    ELSE CHOOSE s \in FreeSizes(p) : \A t \in FreeSizes(p) : ~Lt32(s, t)

\* block b of p is free, holds size0 rounded up to 32, is the smallest such
\* block, and the lowest in address among the smallest
IsBestFit(p, b, size0) ==
    LET Fits(j) == ~p[j].inuse /\ p[j].size.q >= UnitsUp(size0)
    IN  /\ b \in 1..Len(p)
        /\ Fits(b)
        /\ \A j \in 1..Len(p) :
              Fits(j) => \/ Lt32(p[b].size, p[j].size)
                         \/ p[b].size = p[j].size /\ ~Lt32(p[j].addr, p[b].addr)

Allocated(out) == out \in {"PerfectFit", "Split"}

---------------------------------------------------------------------------
(* The claims *)

\* C1 Coverage: while the pool is initialized its blocks are in strictly
\* ascending address order and contiguous: the address of each block plus its
\* size is the address of the next one.
C1_Coverage ==
    initted =>
        \A i \in 1..(Len(pool) - 1) :
            /\ Lt32(pool[i].addr, pool[i + 1].addr)
            /\ MathAddEq(pool[i].addr, pool[i].size, pool[i + 1].addr)

\* C2 Conservation: while the pool is initialized the sizes of its blocks sum
\* to 2,097,152 minus the reserve of the last init rounded up to a multiple of 32.
C2_Conservation ==
    initted =>
        /\ SumR(pool, 1) = 0
        /\ SumQ(pool, 1) = Capacity.q - UnitsUp(reserve)

\* C3 Sentinel: no block in use has address 0, and snd_mem_malloc returns 0
\* only when it allocated nothing.
C3_Sentinel ==
    /\ \A i \in 1..Len(pool) : pool[i].inuse => pool[i].addr # Zero
    /\ (last.op = "malloc" /\ last.ret = Zero) => ~Allocated(last.out)

\* C4 Round trip: from every reachable pool and for every size, a malloc
\* followed at once by a free of the address it returned gives the pool back
\* exactly as it was before the malloc.
C4_RoundTrip ==
    initted =>
        \A s \in Sizes, env \in Env :
            LET m == MallocStep(pool, s, env)
            IN  FreeStep(m.pool, m.ret, "ok").pool = pool

\* C5 Available: a snd_mem_available call that got the guard returns the size
\* of the largest free block, and 0 when no block is free or the pool is not
\* initialized; blocks in use do not count.
C5_Available ==
    (last.op = "available" /\ last.out # "ResourceBusy") =>
        last.ret = LargestFree(pool)

\* C6 Best fit: whenever snd_mem_malloc allocates, the block it takes is a
\* free block at least as large as the request rounded up to 32, the smallest
\* of those, and the lowest in address among the smallest.
C6_BestFit ==
    [][(last'.op = "malloc" /\ Allocated(last'.out))
          => IsBestFit(pool, last'.blk, last'.arg)]_vars

\* C7 OutOfSpace: a snd_mem_malloc of a nonzero size that exceeds the largest
\* free block returns 0 and leaves the pool unchanged.
C7_OutOfSpace ==
    [][(last'.op = "malloc" /\ last'.arg # Zero
            /\ Lt32(LargestFree(pool), last'.arg))
          => (last'.ret = Zero /\ pool' = pool)]_vars

\* the free calls C8 is about: a nonzero address that snd_mem_malloc has not
\* returned, in a call that got the guard
FreeOfUnreturned ==
    /\ last'.op = "free"
    /\ last'.out # "ResourceBusy"
    /\ last'.arg # Zero
    /\ last'.arg \notin returned

\* C8 InvalidFree, as claimed: a free of a nonzero address that was never
\* returned by snd_mem_malloc leaves the pool unchanged and reports InvalidFree.
C8_InvalidFree_Claimed ==
    [][FreeOfUnreturned => (pool' = pool /\ last'.out = "InvalidFree")]_vars

\* C8 InvalidFree, amended: a free of a nonzero address that was never
\* returned by snd_mem_malloc, in a call that gets the guard, leaves the pool
\* unchanged; it reports InvalidFree exactly when no block has that address,
\* and reports nothing when the address is that of a (free) block.
C8_InvalidFree ==
    [][FreeOfUnreturned =>
          /\ pool' = pool
          /\ last'.out \in {"InvalidFree", "Freed"}
          /\ last'.out = "InvalidFree"
                <=> \A i \in 1..Len(pool) : pool[i].addr # last'.arg]_vars

\* a free of a never-returned address inside a block in use was rejected
C8_Witness ==
    /\ last.op = "free"
    /\ last.out = "InvalidFree"
    /\ last.arg \notin returned
    /\ Len(pool) >= 2
    /\ pool[1].inuse
    /\ last.arg = Add32(pool[1].addr, U32(0, 16))

\* C9 No-adjacent-free: in every state between calls no two consecutive
\* blocks are both free.
C9_NoAdjacentFree ==
    \A i \in 1..(Len(pool) - 1) : pool[i].inuse \/ pool[i + 1].inuse

\* a free has just merged the block with both of its neighbours
C9_Witness ==
    /\ last.op = "free"
    /\ last.out = "CoalescedBoth"
    /\ Len(pool) >= 2

\* C10 Free-order independence: once the caller has allocated blocks after an
\* init and then freed every returned address exactly once, in any order, the
\* pool is again the single free block the init left.
C10_FreeOrder ==
    (initted /\ phase \in {"alloc", "free"} /\ BagToSet(owed) = {}) =>
        pool = post_init

\* C11 Alignment: the address and the size of every block are multiples of
\* 32, whatever reserve snd_mem_init and whatever size snd_mem_malloc were given.
C11_Alignment ==
    \A i \in 1..Len(pool) : pool[i].addr.r = 0 /\ pool[i].size.r = 0

\* an init with a reserve that is no multiple of 32 was followed by a malloc
\* of a size that is no multiple of 32, which split a block
C11_Witness ==
    /\ initted
    /\ reserve.r # 0
    /\ last.op = "malloc"
    /\ last.out = "Split"
    /\ last.arg.r # 0
    /\ Len(pool) >= 3

\* C12 Init: after a successful snd_mem_init(reserve) the pool is exactly one
\* block, free, that starts at reserve rounded up to 32 (computed without
\* wrap-around) and ends at 2,097,152.
C12_InitLedger ==
    (last.op = "init" /\ last.out = "Ok") =>
        /\ initted
        /\ Len(pool) = 1
        /\ ~pool[1].inuse
        /\ pool[1].addr.r = 0
        /\ pool[1].addr.q = UnitsUp(last.arg)
        /\ MathAddEq(pool[1].addr, pool[1].size, Capacity)

\* C13 Failed init: after a snd_mem_init that returned -1 (the guard was not
\* acquired, or the first record could not be created) the pool is not
\* initialized, also when it was initialized before the call.
C13_FailedInit ==
    (last.op = "init" /\ last.out \in {"ResourceBusy", "OutOfControlMemory"}) =>
        ~initted

\* C14 Shutdown, as claimed: a snd_mem_shutdown of an initialized pool leaves
\* no record and the pool not initialized, so that snd_mem_available returns 0;
\* a snd_mem_shutdown of a pool that is not initialized changes nothing.
C14_Shutdown_Claimed ==
    [][last'.op = "shutdown" =>
          IF initted
          THEN /\ ~initted'
               /\ pool' = <<>>
               /\ \A env \in LockEnv : AvailableStep(pool', initted', env).ret = Zero
          ELSE initted' = initted /\ pool' = pool]_vars

\* C14 Shutdown, amended: a snd_mem_shutdown of an initialized pool that gets
\* the guard leaves no record and the pool not initialized, so that
\* snd_mem_available returns 0; one that does not get the guard, and one of a
\* pool that is not initialized, change nothing.
C14_Shutdown ==
    [][last'.op = "shutdown" =>
          /\ ~initted => last'.out = "Uninitialized"
          /\ last'.out \in {"Uninitialized", "ResourceBusy", "Ok"}
          /\ IF last'.out = "Ok"
             THEN /\ initted
                  /\ ~initted'
                  /\ pool' = <<>>
                  /\ \A env \in LockEnv :
                        AvailableStep(pool', initted', env).ret = Zero
             ELSE initted' = initted /\ pool' = pool]_vars

\* a shutdown that got the guard has torn the pool down
C14_Witness ==
    /\ last.op = "shutdown"
    /\ last.out = "Ok"
    /\ ~initted
    /\ pool = <<>>

\* C15 Rollback: when snd_mem_malloc has chosen a free block larger than the
\* rounded request and the record of the remainder cannot be created, it
\* returns 0 and the pool, the chosen block included, is as before the call.
C15_Rollback ==
    [][(last'.op = "malloc" /\ last'.out = "OutOfControlMemory") =>
          LET best == BestScan(pool, RoundUp32(last'.arg), 1, 0, BestSizeInit)
          IN  /\ best # 0
              /\ Lt32(RoundUp32(last'.arg), pool[best].size)
              /\ last'.ret = Zero
              /\ pool' = pool
              /\ ~pool'[best].inuse]_vars

\* a malloc that had to split a block of a pool of several blocks failed to
\* create the remainder record
C15_Witness ==
    /\ last.op = "malloc"
    /\ last.out = "OutOfControlMemory"
    /\ Len(pool) >= 2
    /\ \E i \in 1..Len(pool) : pool[i].inuse

\* C18 Size rounding: whenever snd_mem_malloc(size) allocates, the block it
\* returns is in use and its size is the least multiple of 32 that is >= size,
\* computed without wrap-around: never less than size and never 0.
C18_SizeRounding ==
    [][(last'.op = "malloc" /\ Allocated(last'.out)) =>
          /\ last'.blk \in 1..Len(pool')
          /\ pool'[last'.blk].addr = last'.ret
          /\ pool'[last'.blk].inuse
          /\ pool'[last'.blk].size.r = 0
          /\ pool'[last'.blk].size.q = UnitsUp(last'.arg)
          /\ pool'[last'.blk].size # Zero]_vars

\* blocks i and j of p cover ranges [addr, addr + size) that share no byte
RangesDisjoint(p, i, j) ==
    LET End(k) == 32 * (p[k].addr.q + p[k].size.q) + p[k].addr.r + p[k].size.r
        Start(k) == 32 * p[k].addr.q + p[k].addr.r
    IN  End(i) <= Start(j) \/ End(j) <= Start(i)

\* C19 Outstanding allocations are disjoint: every address that snd_mem_malloc
\* returned and the caller has not freed yet is outstanding once only, is the
\* address of a block in use, and no two blocks in use share a byte.
C19_Disjoint ==
    /\ \A a \in BagToSet(owed) :
          /\ CopiesIn(a, owed) = 1
          /\ \E i \in 1..Len(pool) : pool[i].addr = a /\ pool[i].inuse
    /\ \A i, j \in 1..Len(pool) :
          (i < j /\ pool[i].inuse /\ pool[j].inuse) => RangesDisjoint(pool, i, j)

\* the places of a thread whose next step reads or writes records of the pool
LedgerLabels ==
    {"sd_free", "i_tailq", "i_insert", "m_scan", "m_split", "m_shrink", "m_ret",
     "f_find", "f_prev", "f_prev_drop", "f_next", "f_next_drop", "a_scan"}

\* the places of snd_mem_malloc, snd_mem_free and snd_mem_available where the
\* next step traverses or changes the queue
QueueLabels ==
    {"m_scan", "m_split", "m_shrink", "f_find", "f_prev", "f_prev_drop",
     "f_next", "f_next_drop", "a_scan"}

\* C16 Mutual exclusion: at most one caller has the guard, every caller that
\* is about to read or write a record of the pool has the guard, and whenever
\* the guard can be acquired the pool satisfies Coverage and Conservation.
C16_MutualExclusion ==
    /\ Cardinality({t \in Threads : frame[t].holds}) <= 1
    /\ \A t \in Threads : pc[t] \in LedgerLabels => frame[t].holds
    /\ ~snd_mem_mutex => (C1_Coverage /\ C2_Conservation)

\* C17 ResourceBusy fail-fast: a snd_mem_malloc, snd_mem_free or
\* snd_mem_available called from the interrupt handler while the guard is held
\* can always be made, returns in the same step with 0 (free: with nothing),
\* takes no guard and leaves the pool, the freed records, initted and the
\* interrupted threads as they were.
C17_FailFast ==
    [][(snd_mem_mutex /\ last = NoCall /\ last' # NoCall
            /\ last'.op \in {"malloc", "free", "available"}) =>
          /\ last'.out \in {"ResourceBusy", "Uninitialized"}
          /\ last'.ret = Zero
          /\ pool' = pool
          /\ stale' = stale
          /\ initted' = initted
          /\ snd_mem_mutex'
          /\ pc' = pc
          /\ frame' = frame
          /\ ENABLED irq_available
          /\ initted => \A s \in ConcSizes : ENABLED irq_malloc(s)
          /\ initted => \A a \in AddrsOf(pool) : ENABLED irq_free(a)]_vars

\* the interrupt handler called snd_mem_malloc while a thread was half way
\* through a split, holding the guard, and got ResourceBusy
C17_Witness ==
    /\ last.op = "malloc"
    /\ last.out = "ResourceBusy"
    /\ last.ret = Zero
    /\ snd_mem_mutex
    /\ \E t \in Threads : pc[t] = "m_shrink" /\ frame[t].holds

\* C20 No use of released records: whenever a thread in snd_mem_malloc,
\* snd_mem_free or snd_mem_available traverses or changes the queue, the pool
\* is initialized and the head points to live records; and the record a
\* snd_mem_malloc reads its return value from has not been freed.
C20_NoReleasedUse ==
    [][\A t \in Threads :
          /\ (pc[t] \in QueueLabels /\ pc'[t] # pc[t]) => (initted /\ stale = <<>>)
          /\ (pc[t] = "m_ret" /\ pc'[t] # pc[t]) => frame[t].rec # "freed"]_vars

\* the places of a thread between spinlock_lock_irqsafe and spinlock_unlock
HeldLabels ==
    {"sd_free", "sd_done", "i_tailq", "i_insert", "m_scan", "m_split", "m_shrink",
     "f_find", "f_prev", "f_prev_drop", "f_next", "f_next_drop", "a_scan"}

\* the guard is held exactly while some caller is between its acquisition and
\* its release: it is free whenever no operation is in progress
GuardFreeWhenIdle ==
    /\ snd_mem_mutex <=> (\E t \in Threads : frame[t].holds)
    /\ \A t \in Threads : frame[t].holds <=> pc[t] \in HeldLabels

\* a caller's acquisition takes the free guard, its release frees the held
\* guard, and the guard changes in no other step
ReleasedOnce ==
    /\ \A t \in Threads :
          /\ (~frame[t].holds /\ frame'[t].holds) => (~snd_mem_mutex /\ snd_mem_mutex')
          /\ (frame[t].holds /\ ~frame'[t].holds) => (snd_mem_mutex /\ ~snd_mem_mutex')
    /\ (\A t \in Threads : frame'[t].holds = frame[t].holds) =>
          snd_mem_mutex' = snd_mem_mutex

\* C21 as claimed: every call that acquires the guard releases it exactly once
\* on every return path, the guard is free whenever no operation is in
\* progress, and a spinning caller eventually acquires the guard.
C21_GuardRelease_Claimed ==
    /\ []GuardFreeWhenIdle
    /\ [][ReleasedOnce]_vars
    /\ \A t \in Threads : (pc[t] \in LockLabels) ~> frame[t].holds

\* C21 Guard release: every call that acquires the guard releases it exactly
\* once on every return path, the guard is free whenever no operation is in
\* progress, a caller that has the guard eventually releases it, and while a
\* caller spins on the free guard some caller acquires it.
C21_GuardRelease ==
    /\ []GuardFreeWhenIdle
    /\ [][ReleasedOnce]_vars
    /\ \A t \in Threads : frame[t].holds ~> ~frame[t].holds
    /\ ((\E t \in Threads : pc[t] \in LockLabels) /\ ~snd_mem_mutex) ~> snd_mem_mutex

\* one thread spins in spinlock_lock_irqsafe while the other is in the middle
\* of the second merge of snd_mem_free with the guard
C21_Witness ==
    \E t, u \in Threads :
        /\ pc[t] \in LockLabels
        /\ pc[u] = "f_next_drop"
        /\ frame[u].holds
        /\ snd_mem_mutex

\* the functions of dbgio.c that call into the selected handler
DispatchOps ==
    {"dbgio_set_irq_usage", "dbgio_read", "dbgio_write", "dbgio_flush",
     "dbgio_write_buffer", "dbgio_read_buffer", "dbgio_write_buffer_xlat",
     "dbgio_write_str"}

\* C22 Debug console: whenever debug I/O is enabled a handler is selected, so
\* assert(dbgio) never fails in the functions that call into the handler; while
\* debug I/O is disabled these functions return -1 and call no handler.
C22_HandlerSelected ==
    /\ dbgio_enabled => dbgio # NULL
    /\ Alive
    /\ (dbg_call.op \in DispatchOps /\ ~dbgio_enabled) =>
          (dbg_call.ret = -1 /\ dbg_call.via = NULL)

====
